---- MODULE Spec2Model ----
(***************************************************************************)
(* Streaming chat client of ciciliya: the session controller               *)
(* (ChatInterface.handleSubmit and its two response paths), the SSE line   *)
(* decoder and event dispatch (chatAPI.streamMessage) and the message list *)
(* they update.                                                            *)
(*                                                                         *)
(* Text is a sequence of fragments.  A fragment is a short piece of text   *)
(* that the transport never cuts: one character of a payload, one half of  *)
(* the 'data: ' prefix, one lexical run of a JSON document, a newline, or  *)
(* one of the fixed strings of the user interface.  A chunk boundary of    *)
(* the transport falls between any two fragments of the response body.     *)
(***************************************************************************)
EXTENDS Integers, Sequences, FiniteSets, TLC

\* ---------------------------------------------------------------- bounds
MaxRequests == 2      \* transport requests issued in one session
MaxClock == 1         \* largest value Date.now() returns in one session
MaxText == 4          \* longest text given to cleanMarkdownText, in characters

\* ------------------------------------------------------- program constants
MaxSources == 3
ErrorText == <<"Sorry, an error occurred.">>
GenericErrorText == <<"Sorry, I couldn't process your request. Please try again.">>

\* ------------------------------------------------------------ text helpers
NL == "\n"
Whitespace == {" ", NL}

RECURSIVE TrimStart(_)
TrimStart(s) ==
  IF s # <<>> /\ Head(s) \in Whitespace THEN TrimStart(Tail(s)) ELSE s

RECURSIVE TrimEnd(_)
TrimEnd(s) ==
  IF s # <<>> /\ s[Len(s)] \in Whitespace
  THEN TrimEnd(SubSeq(s, 1, Len(s) - 1)) ELSE s

\* String.prototype.trim
Trim(s) == TrimEnd(TrimStart(s))

\* String.prototype.startsWith
StartsWith(s, p) == Len(s) >= Len(p) /\ SubSeq(s, 1, Len(p)) = p

\* String.prototype.slice(n) for 0 <= n
SliceFrom(s, n) == SubSeq(s, n + 1, Len(s))

\* String.prototype.split('\n'): k newlines give k + 1 pieces
RECURSIVE Split(_, _)
Split(s, acc) ==
  IF s = <<>> THEN <<acc>>
  ELSE IF Head(s) = NL THEN <<acc>> \o Split(Tail(s), <<>>)
  ELSE Split(Tail(s), Append(acc, Head(s)))

SplitLines(chunk) == Split(chunk, <<>>)

\* a mistaken order of the replace calls: doubled backslashes come first
EscapesBackslashFirst ==
  << << "\\", "\\" >>, << "n", NL >>, << "t", "\t" >>, << "\"", "\"" >>,
     << "*", "*" >>, << "#", "#" >>, << "[", "[" >>, << "]", "]" >>,
     << "(", "(" >>, << ")", ")" >> >>

\* the two-character escapes cleanMarkdownText undoes, in the order of its
\* replace calls: the character after the backslash and what replaces both
Escapes ==
  << << "n", NL >>, << "t", "\t" >>, << "\"", "\"" >>, << "*", "*" >>,
     << "#", "#" >>, << "[", "[" >>, << "]", "]" >>, << "(", "(" >>,
     << ")", ")" >>, << "\\", "\\" >> >>

\* s.replace(/\\c/g, r): every backslash followed by c, left to right
RECURSIVE Unescape(_, _, _)
Unescape(s, c, r) ==
  IF s = <<>> THEN <<>>
  ELSE IF Len(s) >= 2 /\ s[1] = "\\" /\ s[2] = c
       THEN << r >> \o Unescape(SubSeq(s, 3, Len(s)), c, r)
       ELSE << s[1] >> \o Unescape(Tail(s), c, r)

\* the chain of replace calls
RECURSIVE UnescapeAll(_, _)
UnescapeAll(s, escapes) ==
  IF escapes = <<>> THEN s
  ELSE UnescapeAll(Unescape(s, Head(escapes)[1], Head(escapes)[2]),
                   Tail(escapes))

\* the values null and undefined, which are no text
Undefined == << "undefined" >>

\* a mistaken cleanMarkdownText: a leading quote is enough for the first and
\* the last character to be removed
CleanMarkdownTextStartQuote(text) ==
  IF text = Undefined \/ text = <<>> THEN <<>>
  ELSE LET trimmed == Trim(text)
           cleaned == IF trimmed # <<>> /\ trimmed[1] = "\""
                      THEN SubSeq(trimmed, 2, Len(trimmed) - 1)
                      ELSE trimmed
       IN  UnescapeAll(cleaned, Escapes)

\* a mistaken cleanMarkdownText: every double quote is removed
CleanMarkdownTextNoQuotes(text) ==
  IF text = Undefined \/ text = <<>> THEN <<>>
  ELSE UnescapeAll(SelectSeq(Trim(text), LAMBDA c : c # "\""), Escapes)

\* cleanMarkdownText, on a text given character by character
CleanMarkdownText(text) ==
  IF text = Undefined \/ text = <<>> THEN <<>>
  ELSE LET trimmed == Trim(text)
           cleaned == IF /\ trimmed # <<>>
                         /\ trimmed[1] = "\""
                         /\ trimmed[Len(trimmed)] = "\""
                      THEN SubSeq(trimmed, 2, Len(trimmed) - 1)
                      ELSE trimmed
       IN  UnescapeAll(cleaned, Escapes)

\* ------------------------------------------------------------- wire format
DataPrefix == <<"dat", "a: ">>

TokA == <<"a">>
TokB == <<"b">>
PlainChars == {"a", "b"}

SrcX == <<[title |-> "X", url |-> "http://x"]>>
SrcY == <<[title |-> "Y", url |-> "http://y"]>>

ObjOpen == "{\"type\":"
TokenKey == "\"token\",\"content\":\""
ErrorKey == "\"error\",\"error\":\""
SourcesKey == "\"sources\",\"sources\":"
StrClose == "\"}"
DoneTail == "\"done\"}"
PingTail == "\"ping\"}"
SrcXJSON == "[{\"title\":\"X\",\"url\":\"http://x\"}]"
SrcYJSON == "[{\"title\":\"Y\",\"url\":\"http://y\"}]"
ObjClose == "}"
EmptyObj == "{}"

\* the payloads the far end serialises, one JSON document each
TokenJSON(c) == <<ObjOpen, TokenKey>> \o c \o <<StrClose>>
ErrorJSON(c) == <<ObjOpen, ErrorKey>> \o c \o <<StrClose>>
SourcesXJSON == <<ObjOpen, SourcesKey, SrcXJSON, ObjClose>>
SourcesYJSON == <<ObjOpen, SourcesKey, SrcYJSON, ObjClose>>
DoneJSON == <<ObjOpen, DoneTail>>
PingJSON == <<ObjOpen, PingTail>>
NoTypeJSON == <<EmptyObj>>

IsPlain(c) == \A i \in 1..Len(c) : c[i] \in PlainChars

\* JSON.parse: <<value>> for a well-formed document, <<>> when it throws
JSONParse(s) ==
  IF s = DoneJSON THEN << [type |-> "done"] >>
  ELSE IF s = PingJSON THEN << [type |-> "ping"] >>
  ELSE IF s = NoTypeJSON THEN << [other |-> "none"] >>
  ELSE IF s = SourcesXJSON THEN << [type |-> "sources", sources |-> SrcX] >>
  ELSE IF s = SourcesYJSON THEN << [type |-> "sources", sources |-> SrcY] >>
  ELSE IF /\ Len(s) >= 3
          /\ s[1] = ObjOpen
          /\ s[2] \in {TokenKey, ErrorKey}
          /\ s[Len(s)] = StrClose
          /\ IsPlain(SubSeq(s, 3, Len(s) - 1))
       THEN IF s[2] = TokenKey
            THEN << [type |-> "token", content |-> SubSeq(s, 3, Len(s) - 1)] >>
            ELSE << [type |-> "error", error |-> SubSeq(s, 3, Len(s) - 1)] >>
  ELSE <<>>

\* one line of the response body
Frame(json) == DataPrefix \o json \o <<NL>>

TokenFrame(c) == Frame(TokenJSON(c))
ErrorFrame == Frame(ErrorJSON(TokB))
DoneFrame == Frame(DoneJSON)
SourcesXFrame == Frame(SourcesXJSON)
SourcesYFrame == Frame(SourcesYJSON)
PingFrame == Frame(PingJSON)
NoTypeFrame == Frame(NoTypeJSON)
\* a 'data: ' line whose JSON document is cut short
BadFrame == DataPrefix \o <<ObjOpen, TokenKey>> \o TokA \o <<NL>>
\* a blank keep-alive line
BlankLine == <<NL>>
\* a comment line: a colon and a blank, then text that reads like a frame
CommentLine == <<": ">> \o DoneFrame

\* the response bodies of a far end that answers with a token and a
\* completion marker, or with an error notice
SessionStreams ==
  { TokenFrame(TokA) \o DoneFrame,
    ErrorFrame }

\* the response bodies of a far end that answers with one token or another
\* and closes the connection
VariedStreams == { TokenFrame(TokA), TokenFrame(TokB) }

\* the response bodies of a far end that uses the whole protocol
BackendStreams ==
  { TokenFrame(TokA) \o TokenFrame(TokB) \o DoneFrame,
    TokenFrame(TokA) \o SourcesXFrame \o DoneFrame,
    TokenFrame(TokA),
    TokenFrame(TokA) \o ErrorFrame,
    DoneFrame \o TokenFrame(TokB),
    BadFrame \o TokenFrame(TokA) \o DoneFrame,
    BlankLine \o PingFrame \o SourcesXFrame \o SourcesYFrame,
    TokenFrame(TokA) \o CommentLine \o TokenFrame(TokB),
    ErrorFrame \o NoTypeFrame \o DoneFrame,
    ErrorFrame \o TokenFrame(TokA) }

\* the length of the longest response body
MaxBody ==
  CHOOSE n \in 0..64 :
    \A w \in BackendStreams \cup SessionStreams \cup VariedStreams :
      /\ Len(w) <= n
      /\ \E v \in BackendStreams \cup SessionStreams \cup VariedStreams :
           Len(v) = n

\* the replies the far end may give to one non-streamed request
BackendAnswers == { [answer |-> TokA \o TokB, sources |-> SrcX] }

\* the replies of a far end that also sends an answer wrapped in quotes
\* with an escaped newline, followed by a blank
BackendReplies ==
  BackendAnswers \cup
    { [answer |-> << "\"", "a", "\\", "n", "b", "\"", " " >>, sources |-> SrcY] }

\* the characters of the texts to be rendered: a letter, a blank, a quote, a
\* backslash, and two characters that a backslash escapes
Alphabet == { "a", " ", "\"", "\\", "n", "*" }

\* the quoted text "Hello \n world\*" with its two escapes
HelloSample ==
  << "\"", "Hello ", "\\", "n", " world", "\\", "*", "\"" >>

\* the values of msg.text that may be rendered
Texts ==
  UNION { [1..k -> Alphabet] : k \in 0..MaxText } \cup {Undefined, HelloSample}

\* what the user may have typed when the form is submitted
Queries == { <<>>, <<" ">>, <<"q">> }

\* ------------------------------------------------------------------- state
VARIABLES
  messages,      \* useState([]): the conversation, in order
  isLoading,     \* useState(false): a request is in flight
  useStreaming,  \* useState(true): which response path a submit takes
  now,           \* the value Date.now() returned last
  pc,            \* the await at which the accepted submit is suspended
  botMessageId,  \* handleStreamingResponse: id of the message being streamed
  streamedText,  \* handleStreamingResponse: text accumulated from tokens
  wire,          \* response body of the streamed request
  pos,           \* how much of wire reader.read() has delivered
  dispatched,    \* callbacks streamMessage has invoked for this request
  requests,      \* bodies of the fetch calls issued so far
  submitted,     \* input text of the handleSubmit call just made, if any
  bodies,        \* the response bodies the far end of this session can stream
  answers,       \* the replies the far end of this session can give
  limit,         \* the number of requests this session lasts
  raw,           \* the msg.text a message is rendered from
  shown          \* what cleanMarkdownText returned for it

vars == << messages, isLoading, useStreaming, now, pc, botMessageId,
           streamedText, wire, pos, dispatched, requests, submitted,
           bodies, answers, limit, raw, shown >>

\* what the steps of a session leave alone: the far end, and the text being
\* rendered
env == << bodies, answers, limit, raw, shown >>

\* nothing has been rendered
NotShown == << "not rendered" >>

NoCall == << "-" >>
NoId == -1

\* { ...msg, [k]: v }
With(msg, k, v) == [f \in DOMAIN msg \cup {k} |-> IF f = k THEN v ELSE msg[f]]

\* prev.map((msg) => msg.id === id ? change(msg) : msg), change given as the
\* list of fields it overwrites
RECURSIVE Overwrite(_, _)
Overwrite(msg, fields) ==
  IF fields = <<>> THEN msg
  ELSE Overwrite(With(msg, Head(fields)[1], Head(fields)[2]), Tail(fields))

MapMessages(prev, id, fields) ==
  [i \in 1..Len(prev) |->
     IF prev[i].id = id THEN Overwrite(prev[i], fields) ELSE prev[i]]

\* a mistaken onToken: the token replaces the text instead of extending it
OnTokenReplace(st, id, token) ==
  [messages |-> MapMessages(st.messages, id, << <<"text", token>> >>),
   streamedText |-> token]

\* a mistaken onToken: the first token also ends the streaming state
OnTokenCloses(st, id, token) ==
  LET text == st.streamedText \o token
  IN  [messages |-> MapMessages(st.messages, id,
                     << <<"text", text>>, <<"isStreaming", FALSE>> >>),
       streamedText |-> text]

\* a mistaken onToken: the message is marked as streaming again
OnTokenReopens(st, id, token) ==
  LET text == st.streamedText \o token
  IN  [messages |-> MapMessages(st.messages, id,
                     << <<"text", text>>, <<"isStreaming", TRUE>> >>),
       streamedText |-> text]

\* the four callbacks handleStreamingResponse passes to streamMessage; each
\* takes and returns the pair (messages, streamedText)
OnToken(st, id, token) ==
  LET text == st.streamedText \o token
  IN  [messages |-> MapMessages(st.messages, id, << <<"text", text>> >>),
       streamedText |-> text]

\* a mistaken onSources: the new sources are added to those already there
OnSourcesMerge(st, id, sources) ==
  LET merged(msg) == IF "sources" \in DOMAIN msg THEN msg.sources \o sources
                     ELSE sources
  IN  [st EXCEPT !.messages =
         [i \in 1..Len(st.messages) |->
            IF st.messages[i].id = id
            THEN With(st.messages[i], "sources", merged(st.messages[i]))
            ELSE st.messages[i]]]

OnSources(st, id, sources) ==
  [st EXCEPT !.messages = MapMessages(@, id, << <<"sources", sources>> >>)]

\* a mistaken onError: the message is closed but keeps the streamed text
OnErrorKeepsText(st, id) ==
  [st EXCEPT !.messages = MapMessages(@, id, << <<"isStreaming", FALSE>> >>)]

OnError(st, id) ==
  [st EXCEPT !.messages =
     MapMessages(@, id, << <<"text", ErrorText>>, <<"isStreaming", FALSE>> >>)]

\* a mistaken onDone: the message is left as it is
OnDoneKeepsOpen(st, id) == st

OnDone(st, id) ==
  [st EXCEPT !.messages = MapMessages(@, id, << <<"isStreaming", FALSE>> >>)]

\* a mistaken catch block: a payload that does not parse is reported through
\* onError
DispatchLineParseError(line) ==
  IF ~StartsWith(line, DataPrefix) THEN <<>>
  ELSE LET parsed == JSONParse(SliceFrom(line, Len(DataPrefix)))
       IN  IF parsed = <<>> THEN << [type |-> "error", error |-> line] >>
           ELSE LET data == parsed[1]
                IN  IF "type" \notin DOMAIN data THEN <<>>
                    ELSE IF data.type = "token"
                      THEN << [type |-> "token", content |-> data.content] >>
                    ELSE IF data.type = "sources"
                      THEN << [type |-> "sources", sources |-> data.sources] >>
                    ELSE IF data.type = "error"
                      THEN << [type |-> "error", error |-> data.error] >>
                    ELSE IF data.type = "done"
                      THEN << [type |-> "done"] >>
                    ELSE <<>>

\* a mistaken switch: a default branch takes any other payload for the end
\* of the stream
DispatchLineDefaultDone(line) ==
  IF ~StartsWith(line, DataPrefix) THEN <<>>
  ELSE LET parsed == JSONParse(SliceFrom(line, Len(DataPrefix)))
       IN  IF parsed = <<>> THEN <<>>
           ELSE LET data == parsed[1]
                IN  IF "type" \notin DOMAIN data THEN << [type |-> "done"] >>
                    ELSE IF data.type = "token"
                      THEN << [type |-> "token", content |-> data.content] >>
                    ELSE IF data.type = "sources"
                      THEN << [type |-> "sources", sources |-> data.sources] >>
                    ELSE IF data.type = "error"
                      THEN << [type |-> "error", error |-> data.error] >>
                    ELSE << [type |-> "done"] >>

\* the body of the for loop of streamMessage for one piece of a chunk: the
\* callbacks it invokes, as events
DispatchLine(line) ==
  IF ~StartsWith(line, DataPrefix) THEN <<>>
  ELSE LET parsed == JSONParse(SliceFrom(line, Len(DataPrefix)))
       IN  IF parsed = <<>> THEN <<>>
           ELSE LET data == parsed[1]
                IN  IF "type" \notin DOMAIN data THEN <<>>
                    ELSE IF data.type = "token"
                      THEN << [type |-> "token", content |-> data.content] >>
                    ELSE IF data.type = "sources"
                      THEN << [type |-> "sources", sources |-> data.sources] >>
                    ELSE IF data.type = "error"
                      THEN << [type |-> "error", error |-> data.error] >>
                    ELSE IF data.type = "done"
                      THEN << [type |-> "done"] >>
                    ELSE <<>>

RECURSIVE DispatchLines(_)
DispatchLines(lines) ==
  IF lines = <<>> THEN <<>>
  ELSE DispatchLine(Head(lines)) \o DispatchLines(Tail(lines))

\* what one iteration of the while loop of streamMessage dispatches
DecodeChunk(chunk) == DispatchLines(SplitLines(chunk))

ApplyEvent(st, id, ev) ==
  IF ev.type = "token" THEN OnToken(st, id, ev.content)
  ELSE IF ev.type = "sources" THEN OnSources(st, id, ev.sources)
  ELSE IF ev.type = "error" THEN OnError(st, id)
  ELSE OnDone(st, id)

RECURSIVE ApplyEvents(_, _, _)
ApplyEvents(st, id, evs) ==
  IF evs = <<>> THEN st
  ELSE ApplyEvents(ApplyEvent(st, id, Head(evs)), id, Tail(evs))

\* ----------------------------------------------------------------- actions
InitSession ==
  /\ messages = <<>>
  /\ isLoading = FALSE
  /\ useStreaming = TRUE
  /\ now = 0
  /\ pc = "idle"
  /\ botMessageId = NoId
  /\ streamedText = <<>>
  /\ wire = <<>>
  /\ pos = 0
  /\ dispatched = <<>>
  /\ requests = <<>>
  /\ submitted = NoCall

\* a session of several requests
Init ==
  /\ InitSession
  /\ bodies = SessionStreams
  /\ answers = BackendAnswers
  /\ limit = MaxRequests
  /\ raw = <<>>
  /\ shown = NotShown

\* a session of one request against the whole protocol
InitDecoder ==
  /\ InitSession
  /\ bodies = BackendStreams
  /\ answers = BackendReplies
  /\ limit = 1
  /\ raw = <<>>
  /\ shown = NotShown

\* a session of several requests against a far end whose answers differ and
\* whose streams end without a completion marker
InitVaried ==
  /\ InitSession
  /\ bodies = VariedStreams
  /\ answers = BackendAnswers
  /\ limit = MaxRequests
  /\ raw = <<>>
  /\ shown = NotShown

\* a message with any text is about to be rendered
InitNormalizer ==
  /\ InitSession
  /\ bodies = {}
  /\ answers = {}
  /\ limit = 0
  /\ raw \in Texts
  /\ shown = NotShown

\* Date.now() returns t: the clock is seen only when it is read, and it
\* never runs backwards
DateNow(t) == t \in now..MaxClock

\* the request is over: the closures of handleStreamingResponse and
\* streamMessage are gone
DropClosures ==
  /\ pc' = "idle"
  /\ botMessageId' = NoId
  /\ streamedText' = <<>>
  /\ wire' = <<>>
  /\ pos' = 0
  /\ dispatched' = <<>>

\* a mistaken cleanup: the finally block is left out
NoFinally == UNCHANGED isLoading

\* the finally block of handleSubmit
Finally == isLoading' = FALSE

\* handleStreamingResponse up to the await of fetch in streamMessage; t is
\* the value of its Date.now()
HandleStreamingResponse(query, prev, t) ==
  LET botMessage == [id |-> t + 1, text |-> <<>>, sender |-> "bot",
                     sources |-> <<>>, isStreaming |-> TRUE]
  IN  /\ now' = t
      /\ botMessageId' = t + 1
      /\ streamedText' = <<>>
      /\ messages' = Append(prev, botMessage)
      /\ requests' = Append(requests,
           [query |-> query, max_sources |-> MaxSources, stream |-> TRUE])
      /\ pc' = "fetch"
      /\ UNCHANGED << wire, pos, dispatched >>

\* handleRegularResponse up to the await of fetch in sendMessage
HandleRegularResponse(query, prev, t) ==
  /\ now' = t
  /\ messages' = prev
  /\ requests' = Append(requests,
       [query |-> query, max_sources |-> MaxSources, stream |-> FALSE])
  /\ pc' = "send"
  /\ UNCHANGED << botMessageId, streamedText, wire, pos, dispatched >>

\* a mistaken guard: the input is not trimmed before it is tested
AcceptsUntrimmed(q) == q # <<>> /\ ~isLoading

\* a mistaken guard: the request in flight is not looked at
AcceptsWhileLoading(q) == Trim(q) # <<>>

\* the guard of handleSubmit: message.trim() && !isLoading
Accepts(q) == Trim(q) # <<>> /\ ~isLoading

\* the form is submitted with q in the input field; a session issues at most
\* limit requests
HandleSubmit(q) ==
  /\ submitted' = q
  /\ UNCHANGED << useStreaming, env >>
  /\ IF Accepts(q)
     THEN /\ Len(requests) < limit
          /\ isLoading' = TRUE
          /\ \E t1 \in 0..MaxClock :
               /\ DateNow(t1)
               /\ LET userMessage == [id |-> t1, text |-> q, sender |-> "user"]
                      prev == Append(messages, userMessage)
                  IN  IF useStreaming
                      THEN \E t2 \in t1..MaxClock :
                             HandleStreamingResponse(q, prev, t2)
                      ELSE HandleRegularResponse(q, prev, t1)
     ELSE UNCHANGED << messages, isLoading, now, pc, botMessageId,
                       streamedText, wire, pos, dispatched, requests >>

\* a mistaken catch block: the failure is reported by a message of its own,
\* as on the other response path
StreamCatchAddsMessage ==
  /\ \E t \in 0..MaxClock :
       /\ DateNow(t)
       /\ now' = t
       /\ messages' = Append(messages,
            [id |-> t + 1, text |-> GenericErrorText, sender |-> "bot"])
  /\ DropClosures
  /\ Finally
  /\ submitted' = NoCall
  /\ UNCHANGED << useStreaming, requests, env >>

\* a mistaken catch block: after onError the failure is thrown again, so
\* that the catch block of handleSubmit adds its own message
StreamCatchRethrow ==
  /\ \E t \in 0..MaxClock :
       /\ DateNow(t)
       /\ now' = t
       /\ messages' =
            Append(OnError([messages |-> messages, streamedText |-> streamedText],
                           botMessageId).messages,
                   [id |-> t + 1, text |-> GenericErrorText, sender |-> "bot"])
  /\ DropClosures
  /\ Finally
  /\ submitted' = NoCall
  /\ UNCHANGED << useStreaming, requests, env >>

\* streamMessage: the catch block, then the return through
\* handleStreamingResponse into the finally of handleSubmit
StreamCatch ==
  /\ messages' = OnError([messages |-> messages, streamedText |-> streamedText],
                         botMessageId).messages
  /\ DropClosures
  /\ Finally
  /\ submitted' = NoCall
  /\ UNCHANGED << useStreaming, now, requests, env >>

\* fetch of /api/stream rejects
StreamFetchFail == pc = "fetch" /\ StreamCatch

\* fetch of /api/stream resolves with a non-success status
StreamNotOk == pc = "fetch" /\ StreamCatch

\* fetch of /api/stream resolves with a success status
StreamOk ==
  /\ pc = "fetch"
  /\ pc' = "read"
  /\ wire' \in bodies
  /\ pos' = 0
  /\ submitted' = NoCall
  /\ UNCHANGED << messages, isLoading, useStreaming, now, botMessageId,
                  streamedText, dispatched, requests, env >>

\* a mistaken loop: it returns once a done or an error event is dispatched
ReadChunkReturns(n) ==
  /\ pc = "read"
  /\ n \in (pos + 1)..Len(wire)
  /\ LET chunk == SubSeq(wire, pos + 1, n)
         evs == DecodeChunk(chunk)
         st == ApplyEvents([messages |-> messages, streamedText |-> streamedText],
                           botMessageId, evs)
     IN  /\ messages' = st.messages
         /\ IF \E k \in 1..Len(evs) : evs[k].type \in {"error", "done"}
            THEN DropClosures /\ Finally
            ELSE /\ streamedText' = st.streamedText
                 /\ dispatched' = dispatched \o evs
                 /\ pos' = n
                 /\ UNCHANGED << isLoading, pc, botMessageId, wire >>
  /\ submitted' = NoCall
  /\ UNCHANGED << useStreaming, now, requests, env >>

\* reader.read() resolves with the fragments pos + 1 .. n of the body, which
\* the loop body decodes (the body is ASCII, so decoder.decode(value) is the
\* text of the chunk) and dispatches before the next read
ReadChunk(n) ==
  /\ pc = "read"
  /\ n \in (pos + 1)..Len(wire)
  /\ LET chunk == SubSeq(wire, pos + 1, n)
         evs == DecodeChunk(chunk)
         st == ApplyEvents([messages |-> messages, streamedText |-> streamedText],
                           botMessageId, evs)
     IN  /\ messages' = st.messages
         /\ streamedText' = st.streamedText
         /\ dispatched' = dispatched \o evs
  /\ pos' = n
  /\ submitted' = NoCall
  /\ UNCHANGED << isLoading, useStreaming, now, pc, botMessageId, wire,
                  requests, env >>

\* reader.read() resolves with done: the transport has closed, at the end of
\* the body or before it
ReadDone ==
  /\ pc = "read"
  /\ DropClosures
  /\ Finally
  /\ submitted' = NoCall
  /\ UNCHANGED << messages, useStreaming, now, requests, env >>

\* reader.read() rejects
ReadFail == pc = "read" /\ StreamCatch

\* a mistaken addErrorMessage: the message takes the place of the list
AddErrorMessageAlone(errorText, t) ==
  /\ now' = t
  /\ messages' = << [id |-> t + 1, text |-> errorText, sender |-> "bot"] >>

\* a mistaken addErrorMessage: the message shows the text of the exception
AddErrorMessageDetail(errorText, t) ==
  /\ now' = t
  /\ messages' = Append(messages,
       [id |-> t + 1, text |-> << "HTTP error! status: 500" >>, sender |-> "bot"])

\* addErrorMessage; t is the value of its Date.now()
AddErrorMessage(errorText, t) ==
  /\ now' = t
  /\ messages' = Append(messages,
       [id |-> t + 1, text |-> errorText, sender |-> "bot"])

\* a mistaken catch block: the request that failed is sent once more
SubmitCatchRetries ==
  /\ requests' = Append(requests, requests[Len(requests)])
  /\ pc' = "send"
  /\ submitted' = NoCall
  /\ UNCHANGED << messages, isLoading, useStreaming, now, botMessageId,
                  streamedText, wire, pos, dispatched, env >>

\* handleSubmit: the catch block, then finally
SubmitCatch ==
  /\ \E t \in 0..MaxClock : DateNow(t) /\ AddErrorMessage(GenericErrorText, t)
  /\ pc' = "idle"
  /\ Finally
  /\ submitted' = NoCall
  /\ UNCHANGED << useStreaming, botMessageId, streamedText, wire, pos,
                  dispatched, requests, env >>

\* fetch of /api/query rejects
SendFetchFail == pc = "send" /\ SubmitCatch

\* fetch of /api/query resolves with a non-success status
SendNotOk == pc = "send" /\ SubmitCatch

\* fetch of /api/query resolves with a success status
SendOk ==
  /\ pc = "send"
  /\ pc' = "json"
  /\ submitted' = NoCall
  /\ UNCHANGED << messages, isLoading, useStreaming, now, botMessageId,
                  streamedText, wire, pos, dispatched, requests, env >>

\* response.json() rejects
SendJsonFail == pc = "json" /\ SubmitCatch

\* a mistaken handleRegularResponse: the message is built from the template
\* of the streamed one
SendJsonOkStreaming(response, t) ==
  /\ pc = "json"
  /\ response \in answers
  /\ DateNow(t)
  /\ now' = t
  /\ messages' = Append(messages,
       [id |-> t + 1, text |-> response.answer, sender |-> "bot",
        sources |-> response.sources, isStreaming |-> TRUE])
  /\ pc' = "idle"
  /\ Finally
  /\ submitted' = NoCall
  /\ UNCHANGED << useStreaming, botMessageId, streamedText, wire, pos,
                  dispatched, requests, env >>

\* a handleRegularResponse that stores the cleaned answer
SendJsonOkCleaned(response, t) ==
  /\ pc = "json"
  /\ response \in answers
  /\ DateNow(t)
  /\ now' = t
  /\ messages' = Append(messages,
       [id |-> t + 1, text |-> CleanMarkdownText(response.answer),
        sender |-> "bot", sources |-> response.sources])
  /\ pc' = "idle"
  /\ Finally
  /\ submitted' = NoCall
  /\ UNCHANGED << useStreaming, botMessageId, streamedText, wire, pos,
                  dispatched, requests, env >>

\* response.json() resolves with the reply; t is the value of Date.now() in
\* handleRegularResponse
SendJsonOk(response, t) ==
  /\ pc = "json"
  /\ response \in answers
  /\ DateNow(t)
  /\ now' = t
  /\ messages' = Append(messages,
       [id |-> t + 1, text |-> response.answer, sender |-> "bot",
        sources |-> response.sources])
  /\ pc' = "idle"
  /\ Finally
  /\ submitted' = NoCall
  /\ UNCHANGED << useStreaming, botMessageId, streamedText, wire, pos,
                  dispatched, requests, env >>

\* setUseStreaming.  The mode is read by handleSubmit alone, which does
\* nothing while isLoading, so a change made while a request is in flight
\* acts like the same change made when that request is over.
SetUseStreaming(b) ==
  /\ ~isLoading
  /\ b # useStreaming
  /\ useStreaming' = b
  /\ submitted' = NoCall
  /\ UNCHANGED << messages, isLoading, now, pc, botMessageId, streamedText,
                  wire, pos, dispatched, requests, env >>

Next ==
  \/ \E q \in Queries : HandleSubmit(q)
  \/ StreamFetchFail
  \/ StreamNotOk
  \/ StreamOk
  \/ \E n \in 1..MaxBody : ReadChunk(n)
  \/ ReadDone
  \/ ReadFail
  \/ SendFetchFail
  \/ SendNotOk
  \/ SendOk
  \/ SendJsonFail
  \/ \E r \in BackendReplies, t \in 0..MaxClock : SendJsonOk(r, t)
  \/ \E b \in BOOLEAN : SetUseStreaming(b)

\* the message is rendered: cleanMarkdownText(msg.text)
Render ==
  /\ shown = NotShown
  /\ shown' = CleanMarkdownText(raw)
  /\ UNCHANGED << messages, isLoading, useStreaming, now, pc, botMessageId,
                  streamedText, wire, pos, dispatched, requests, submitted,
                  bodies, answers, limit, raw >>

NormalizerNext == Render

\* a session of several requests against the small far end
Spec == Init /\ [][Next]_vars

\* a session of several requests with differing answers
VariedSpec == InitVaried /\ [][Next]_vars

\* the rendering of one message text
NormalizerSpec == InitNormalizer /\ [][NormalizerNext]_vars

\* one request against the far end that uses the whole protocol
DecoderSpec == InitDecoder /\ [][Next]_vars

\* ------------------------------------------------------------------ claims
\* msg.isStreaming is truthy
IsStreaming(msg) == "isStreaming" \in DOMAIN msg /\ msg.isStreaming

\* msg was streamed and has been closed
IsClosed(msg) == "isStreaming" \in DOMAIN msg /\ ~msg.isStreaming

\* msg[f], or nothing when msg has no field f
Field(msg, f) == IF f \in DOMAIN msg THEN << msg[f] >> ELSE <<>>

Max(S) == CHOOSE x \in S : \A y \in S : y <= x
Min(S) == CHOOSE x \in S : \A y \in S : x <= y

\* the newlines among the fragments lo .. hi of the response body
Newlines(lo, hi) == { i \in lo..hi : wire[i] = NL }

\* where the line holding fragment p of the response body begins
LineStart(p) == IF Newlines(1, p) = {} THEN 1 ELSE Max(Newlines(1, p)) + 1

\* every line of the body w is a terminated 'data: ' line with a JSON payload
ValidStream(w) ==
  LET lines == SplitLines(w)
  IN  /\ lines[Len(lines)] = <<>>
      /\ \A i \in 1..(Len(lines) - 1) :
           /\ StartsWith(lines[i], DataPrefix)
           /\ JSONParse(SliceFrom(lines[i], Len(DataPrefix))) # <<>>

\* some terminated line of the body w is a 'data: ' line that is not JSON
HasMalformedLine(w) ==
  LET lines == SplitLines(w)
  IN  \E i \in 1..(Len(lines) - 1) :
        /\ StartsWith(lines[i], DataPrefix)
        /\ JSONParse(SliceFrom(lines[i], Len(DataPrefix))) = <<>>

\* the contents of the token events of evs, joined in order
RECURSIVE TokenText(_)
TokenText(evs) ==
  IF evs = <<>> THEN <<>>
  ELSE (IF Head(evs).type = "token" THEN Head(evs).content ELSE <<>>)
       \o TokenText(Tail(evs))

\* the whole response body has been read
BodyRead == pc = "read" /\ pos = Len(wire)

\* this step is one reader.read() that delivered a chunk
ChunkRead == pc = "read" /\ pos' > pos

\* this step is a call of handleSubmit
SubmitCalled == submitted' # NoCall

\* C1: in every reachable state of a session at most one message of the ledger
\* has streaming = true.
C1_AtMostOneStreaming ==
  Cardinality({ i \in 1..Len(messages) : IsStreaming(messages[i]) }) <= 1

\* C2: once a streamed bot message is closed, no later step changes its text
\* or its sources.
C2_ClosedImmutable ==
  [][ \A i \in 1..Len(messages) :
        IsClosed(messages[i]) =>
          /\ i <= Len(messages')
          /\ messages'[i].text = messages[i].text
          /\ Field(messages'[i], "sources") = Field(messages[i], "sources") ]_vars

\* C3: once a valid stream has been read to its end, the events dispatched
\* are those dispatched when the same stream arrives as one chunk, however
\* the stream was cut into chunks.
C3_ChunkIndependence ==
  (BodyRead /\ ValidStream(wire)) => dispatched = DecodeChunk(wire)

\* C4: reading a chunk dispatches events for the newline-terminated pieces of
\* the chunk only: the text after its last newline yields no event.
C4_NoEventBeforeTerminator ==
  [][ ChunkRead =>
        LET pieces == SplitLines(SubSeq(wire, pos + 1, pos'))
        IN  dispatched' =
              dispatched \o DispatchLines(SubSeq(pieces, 1, Len(pieces) - 1))
    ]_vars

\* C5: when a chunk ended inside a line and the next chunk brings that line's
\* newline, the line is decoded as a whole: if it is a valid frame, its event
\* is the first event dispatched on reading the completing chunk.
C5_PartialLineCarried ==
  [][ ( /\ ChunkRead
        /\ pos > 0
        /\ wire[pos] # NL
        /\ Newlines(pos + 1, pos') # {} ) =>
        LET line == SubSeq(wire, LineStart(pos), Min(Newlines(pos + 1, pos')) - 1)
            ev == DispatchLine(line)
        IN  ev # <<>> =>
              /\ Len(dispatched') > Len(dispatched)
              /\ dispatched'[Len(dispatched) + 1] = ev[1]
    ]_vars

\* C6: once a stream holding a malformed 'data: ' line has been read to its
\* end, every valid frame of it has been dispatched, in order, and no
\* failure text has been written unless the stream carried an error event.
C6_MalformedIsolated ==
  (BodyRead /\ HasMalformedLine(wire)) =>
    /\ dispatched = DecodeChunk(wire)
    /\ ( (\A i \in 1..Len(dispatched) : dispatched[i].type # "error") =>
           \A i \in 1..Len(messages) : messages[i].text # ErrorText )

\* C7: while the bot message of the request is open, its text is the
\* concatenation, in dispatch order, of the contents of the token events
\* dispatched so far; tokens "a" then "b" give "ab".
C7_TextIsTokensInOrder ==
  (pc = "read" /\ IsStreaming(messages[Len(messages)])) =>
    /\ messages[Len(messages)].text = TokenText(dispatched)
    /\ ( ( /\ wire = TokenFrame(TokA) \o TokenFrame(TokB) \o DoneFrame
           /\ Len(dispatched) = 2 ) =>
         messages[Len(messages)].text = TokA \o TokB )

C7_Witness ==
  /\ pc = "read"
  /\ IsStreaming(messages[Len(messages)])
  /\ Len(dispatched) = 2
  /\ messages[Len(messages)].text = TokA \o TokB

\* C8: a call of handleSubmit with an empty or whitespace-only input changes
\* neither the ledger nor the busy flag and issues no transport request.
C8_BlankSubmitNoOp ==
  [][ (SubmitCalled /\ Trim(submitted') = <<>>) =>
        UNCHANGED << messages, isLoading, requests, pc >> ]_vars

C8_Witness ==
  /\ submitted = << " " >>
  /\ ~isLoading
  /\ Len(messages) = 2
  /\ Len(requests) = 1

\* C9: a call of handleSubmit while a request is in flight appends no
\* message, issues no request and leaves the request in flight as it was.
C9_BusySubmitNoOp ==
  [][ (SubmitCalled /\ isLoading) =>
        UNCHANGED << messages, isLoading, requests, pc, botMessageId,
                     streamedText, wire, pos, dispatched >> ]_vars

C9_Witness ==
  /\ submitted = << "q" >>
  /\ isLoading
  /\ pc = "read"
  /\ pos > 0

\* C10: whenever no transport call is pending the busy flag is false, and a
\* call of handleSubmit with a non-blank input made while the flag is false
\* is accepted: it appends the user message and issues one request.
C10_BusyCleared ==
  /\ [](pc = "idle" => ~isLoading)
  /\ [][ (SubmitCalled /\ ~isLoading /\ Trim(submitted') # <<>>) =>
           /\ isLoading'
           /\ Len(messages') > Len(messages)
           /\ messages'[Len(messages) + 1].sender = "user"
           /\ messages'[Len(messages) + 1].text = submitted'
           /\ Len(requests') = Len(requests) + 1 ]_vars

C10_Witness ==
  /\ Len(requests) = 2
  /\ submitted = << "q" >>
  /\ isLoading
  /\ messages[2].text = ErrorText
  /\ ~messages[2].isStreaming

\* evs is some token events, then one sources event, then done
TokensSourcesDone(evs) ==
  /\ Len(evs) >= 2
  /\ evs[Len(evs)].type = "done"
  /\ evs[Len(evs) - 1].type = "sources"
  /\ \A i \in 1..(Len(evs) - 2) : evs[i].type = "token"

\* the ledger msgs holds two messages for each request made, the last two
\* being the closed user message q and a closed bot message with the text of
\* the tokens of evs and the sources of its sources event
StreamedLedger(msgs, q, evs) ==
  /\ Len(msgs) = 2 * Len(requests)
  /\ LET user == msgs[Len(msgs) - 1]
         bot == msgs[Len(msgs)]
     IN  /\ user.sender = "user"
         /\ user.text = q
         /\ ~IsStreaming(user)
         /\ bot.sender = "bot"
         /\ IsClosed(bot)
         /\ bot.text = TokenText(evs)
         /\ bot.sources = evs[Len(evs) - 1].sources

\* C11: when the events dispatched for a streaming submit of q are tokens
\* t1..tn, one sources event S and then done, the request has added exactly
\* two messages, the closed user message q and a closed bot message with
\* text t1 ++ ... ++ tn and sources S, and the ledger is the same when the
\* transport then closes.
C11_TokensSourcesDone ==
  /\ []( (pc = "read" /\ TokensSourcesDone(dispatched)) =>
           StreamedLedger(messages, requests[Len(requests)].query, dispatched) )
  /\ [][ (ReadDone /\ TokensSourcesDone(dispatched)) =>
           StreamedLedger(messages', requests[Len(requests)].query, dispatched)
       ]_vars

C11_Witness ==
  /\ pc = "idle"
  /\ Len(messages) = 2
  /\ messages[1].text = << "q" >>
  /\ IsClosed(messages[2])
  /\ messages[2].text = TokA
  /\ messages[2].sources = SrcX

\* C12: when the event dispatched last is an error event, the bot message of
\* the request is closed and its text is the fixed failure text, whatever
\* tokens were streamed into it before.
C12_ErrorReplacesText ==
  ( /\ pc = "read"
    /\ dispatched # <<>>
    /\ dispatched[Len(dispatched)].type = "error" ) =>
    /\ IsClosed(messages[Len(messages)])
    /\ messages[Len(messages)].text = ErrorText

C12_Witness ==
  /\ pc = "read"
  /\ Len(dispatched) = 2
  /\ dispatched[1] = [type |-> "token", content |-> TokA]
  /\ dispatched[2].type = "error"
  /\ streamedText = TokA
  /\ messages[Len(messages)].text = ErrorText

\* this step is a transport failure of the streamed request: fetch rejects,
\* the status is not a success, or a read rejects
StreamFailed == StreamFetchFail \/ StreamNotOk \/ ReadFail

\* C13: a transport failure of a streamed request leaves the request's bot
\* message closed with the fixed failure text, adds no message, and
\* handleSubmit returns: the request is over and the busy flag is cleared.
C13_TransportFailureCloses ==
  [][ StreamFailed =>
        /\ Len(messages') = Len(messages)
        /\ messages'[Len(messages')].id = botMessageId
        /\ messages'[Len(messages')].sender = "bot"
        /\ IsClosed(messages'[Len(messages')])
        /\ messages'[Len(messages')].text = ErrorText
        /\ pc' = "idle"
        /\ ~isLoading' ]_vars

C13_Witness ==
  /\ pc = "idle"
  /\ ~isLoading
  /\ Len(messages) = 2
  /\ IsClosed(messages[2])
  /\ messages[2].text = ErrorText
  /\ messages[2].sources = SrcX

\* this step is a failure of the request that is not streamed: fetch
\* rejects, the status is not a success, or the body cannot be read
SendFailed == SendFetchFail \/ SendNotOk \/ SendJsonFail

\* C14: when a request that is not streamed fails, the ledger, which ends
\* with the user message of the request, gains exactly one message, a bot
\* message that is not streaming and carries the fixed failure text, and
\* handleSubmit returns: the request is over and the busy flag is cleared.
C14_SendFailureAddsOne ==
  [][ SendFailed =>
        /\ messages[Len(messages)].sender = "user"
        /\ messages[Len(messages)].text = requests[Len(requests)].query
        /\ Len(messages') = Len(messages) + 1
        /\ SubSeq(messages', 1, Len(messages)) = messages
        /\ messages'[Len(messages')].sender = "bot"
        /\ ~IsStreaming(messages'[Len(messages')])
        /\ messages'[Len(messages')].text = GenericErrorText
        /\ pc' = "idle"
        /\ ~isLoading' ]_vars

C14_Witness ==
  /\ pc = "idle"
  /\ ~isLoading
  /\ Len(messages) = 2
  /\ Len(requests) = 1
  /\ ~requests[1].stream
  /\ messages[1].sender = "user"
  /\ messages[2].text = GenericErrorText

\* this step is handleRegularResponse appending the reply r at time t
ReplyStored(r, t) == SendJsonOk(r, t)

\* the message the step appended
Appended == messages'[Len(messages')]

ClosedAfterTokens ==
  /\ ReadDone
  /\ dispatched # <<>>
  /\ \A k \in 1..Len(dispatched) : dispatched[k].type = "token"

\* message i of the ledger was left streaming, with the tokens it received,
\* by a request that is over
LeftOpen(i) ==
  /\ IsStreaming(messages[i])
  /\ messages[i].text # <<>>
  /\ pc = "idle" \/ i < Len(messages)

\* C16: when the transport closes after token events and no error or done
\* event, the bot message of the request is left streaming with the text of
\* the tokens received, and a message so left by a request that is over is
\* the same in every later state.
C16_LeftOpenForGood ==
  [][ /\ ClosedAfterTokens =>
           /\ Len(messages') = Len(messages)
           /\ IsStreaming(messages'[Len(messages')])
           /\ messages'[Len(messages')].text = TokenText(dispatched)
      /\ \A i \in 1..Len(messages) :
           LeftOpen(i) =>
             /\ i <= Len(messages')
             /\ messages'[i] = messages[i] ]_vars

\* this step dispatches an error event or a done event
TerminalDispatched ==
  /\ ChunkRead
  /\ \E k \in (Len(dispatched) + 1)..Len(dispatched') :
       dispatched'[k].type \in {"error", "done"}

C18_IdsIncreasing ==
  \A i, j \in 1..Len(messages) : i < j => messages[i].id < messages[j].id

\* C19: a step that applies events of the stream, or the failure of its
\* transport, leaves the text, sources, sender and streaming state of every
\* message but the bot message of the request as they were.
C19_OnlyOwnMessageChanged ==
  [][ (ChunkRead \/ StreamFailed) =>
        \A i \in 1..(Len(messages) - 1) :
          /\ messages'[i].text = messages[i].text
          /\ messages'[i].sender = messages[i].sender
          /\ Field(messages'[i], "sources") = Field(messages[i], "sources")
          /\ IsStreaming(messages'[i]) = IsStreaming(messages[i]) ]_vars

\* line is a 'data: ' line whose JSON payload has no type, or a type other
\* than token, sources, error and done
IsUnknownLine(line) ==
  /\ StartsWith(line, DataPrefix)
  /\ LET parsed == JSONParse(SliceFrom(line, Len(DataPrefix)))
     IN  /\ parsed # <<>>
         /\ \/ "type" \notin DOMAIN parsed[1]
            \/ parsed[1].type \notin {"token", "sources", "error", "done"}

\* lines without its lines of unknown type
KnownLines(lines) == SelectSeq(lines, LAMBDA l : ~IsUnknownLine(l))

\* C20: a payload with no type or with a type other than token, sources,
\* error and done changes nothing and does not stop the loop: reading a chunk
\* dispatches the events, and changes the ledger, exactly as reading the
\* chunk without its lines of unknown type does.
C20_UnknownTypeIgnored ==
  [][ ChunkRead =>
        LET lines == SplitLines(SubSeq(wire, pos + 1, pos'))
            evs == DispatchLines(KnownLines(lines))
            st == ApplyEvents([messages |-> messages,
                               streamedText |-> streamedText],
                              botMessageId, evs)
        IN  /\ dispatched' = dispatched \o evs
            /\ messages' = st.messages ]_vars

C20_Witness ==
  /\ pc = "read"
  /\ wire = BlankLine \o PingFrame \o SourcesXFrame \o SourcesYFrame
  /\ pos = Len(wire)
  /\ dispatched = << [type |-> "sources", sources |-> SrcX],
                     [type |-> "sources", sources |-> SrcY] >>
  /\ messages[Len(messages)].text = <<>>
  /\ messages[Len(messages)].sources = SrcY

\* this step dispatches sources events and no other event
OnlySourcesDispatched ==
  /\ ChunkRead
  /\ Len(dispatched') > Len(dispatched)
  /\ \A k \in (Len(dispatched) + 1)..Len(dispatched') :
       dispatched'[k].type = "sources"

\* C21: when the event dispatched last is a sources event, the sources of the
\* request's bot message are the sources of that event, whatever sources
\* events came before it, and a step that dispatches sources events alone
\* changes neither the text nor the streaming state of the message.
C21_SourcesReplaced ==
  /\ []( ( /\ pc = "read"
           /\ dispatched # <<>>
           /\ dispatched[Len(dispatched)].type = "sources" ) =>
           messages[Len(messages)].sources =
             dispatched[Len(dispatched)].sources )
  /\ [][ OnlySourcesDispatched =>
           /\ messages'[Len(messages)].text = messages[Len(messages)].text
           /\ IsStreaming(messages'[Len(messages)]) =
                IsStreaming(messages[Len(messages)]) ]_vars

C21_Witness ==
  /\ pc = "read"
  /\ Len(dispatched) = 2
  /\ dispatched[1] = [type |-> "sources", sources |-> SrcX]
  /\ dispatched[2] = [type |-> "sources", sources |-> SrcY]
  /\ IsStreaming(messages[Len(messages)])
  /\ messages[Len(messages)].sources = SrcY

\* what the ledger shows of a message
Observed(msg) ==
  [sender |-> msg.sender, text |-> msg.text,
   sources |-> Field(msg, "sources"), streaming |-> IsStreaming(msg)]

\* the texts a failed request leaves in its bot message
FailureTexts == {ErrorText, GenericErrorText}

\* request k is over: the ledger holds its user message at 2k - 1 and its
\* bot message at 2k
RequestOver(k) == k < Len(requests) \/ pc = "idle"

\* C22: a streamed request and a request that is not streamed, made with the
\* same query, leave the same in the ledger: when both received the same
\* answer and sources their bot messages show the same sender, text and
\* sources and neither is streaming, and when both failed their bot
\* messages are not streaming and carry the same failure text.
C22_PathsEquivalent ==
  \A i, j \in 1..Len(requests) :
    ( /\ requests[i].stream
      /\ ~requests[j].stream
      /\ requests[i].query = requests[j].query
      /\ RequestOver(i)
      /\ RequestOver(j) ) =>
      LET streamed == messages[2 * i]
          regular == messages[2 * j]
      IN  /\ messages[2 * i - 1].text = messages[2 * j - 1].text
          /\ messages[2 * i - 1].sender = messages[2 * j - 1].sender
          /\ ( /\ IsClosed(streamed)
               /\ streamed.text \notin FailureTexts
               /\ regular.text = streamed.text
               /\ Field(regular, "sources") = Field(streamed, "sources") ) =>
               Observed(regular) = Observed(streamed)
          /\ ( /\ streamed.text \in FailureTexts
               /\ regular.text \in FailureTexts ) =>
               /\ ~IsStreaming(streamed)
               /\ ~IsStreaming(regular)
               /\ regular.text = streamed.text

\* the message has been rendered
Rendered == shown # NotShown

\* s starts and ends with a double quote
QuoteWrapped(s) == s # <<>> /\ s[1] = "\"" /\ s[Len(s)] = "\""

HasBackslash(s) == \E i \in 1..Len(s) : s[i] = "\\"

\* s holds a backslash followed by a character that cleanMarkdownText
\* unescapes
HasEscape(s) ==
  \E i \in 1..(Len(s) - 1), k \in 1..Len(Escapes) :
    s[i] = "\\" /\ s[i + 1] = Escapes[k][1]

C24_NoBackslashUnchanged ==
  (Rendered /\ raw # Undefined /\ ~HasBackslash(raw)) => shown = raw

\* C24 as amended: a text without a backslash that has no blank at either
\* end and is not wrapped in double quotes is returned unchanged.
C24_CleanUnchanged ==
  ( /\ Rendered
    /\ raw # Undefined
    /\ ~HasBackslash(raw)
    /\ Trim(raw) = raw
    /\ ~QuoteWrapped(raw) ) => shown = raw

C24_Witness ==
  /\ raw = << "a", "\"", " ", "n" >>
  /\ shown = raw

\* C25: the specific unescapes come before the collapse of doubled
\* backslashes and the collapse is one pass: the backslash it leaves is not
\* combined with what follows it, so that no character of the result stands
\* for more than two characters of the text; the quoted text
\* "Hello \n world\*" gives Hello, a newline, world* without the quotes.
C25_CollapseLastOnce ==
  Rendered =>
    /\ raw = HelloSample => shown = << "Hello ", NL, " world", "*" >>
    /\ raw = << "\\", "\\", "\\", "*" >> => shown = << "\\", "*" >>
    /\ raw = << "\\", "\\", "\\", "\\" >> => shown = << "\\", "\\" >>
    /\ (raw # Undefined /\ Trim(raw) = raw /\ ~QuoteWrapped(raw)) =>
         2 * Len(shown) >= Len(raw)

C25_Witness ==
  /\ raw = HelloSample
  /\ shown = << "Hello ", NL, " world", "*" >>

\* C26: an absent or empty text gives the empty text, and when the trimmed
\* text starts and ends with a double quote, two distinct characters, its
\* first and its last, are removed and no other.
C26_OneQuotePairStripped ==
  Rendered =>
    /\ (raw = Undefined \/ raw = <<>>) => shown = <<>>
    /\ ( /\ raw # Undefined
         /\ QuoteWrapped(Trim(raw))
         /\ ~HasBackslash(raw) ) =>
         /\ Len(Trim(raw)) >= 2
         /\ shown = SubSeq(Trim(raw), 2, Len(Trim(raw)) - 1)

\* C27: user messages and the bot messages of requests that are not
\* streamed are streaming in no state, and the bot message of a streamed
\* request is created streaming, with empty text and empty sources.
C27_StreamingOnlyWhenStreamed ==
  /\ \A i \in 1..Len(messages) :
       messages[i].sender = "user" => ~IsStreaming(messages[i])
  /\ \A k \in 1..Len(requests) :
       (~requests[k].stream /\ Len(messages) >= 2 * k) =>
         /\ messages[2 * k].sender = "bot"
         /\ ~IsStreaming(messages[2 * k])
  /\ pc = "fetch" =>
       /\ messages[Len(messages)].sender = "bot"
       /\ messages[Len(messages)].id = botMessageId
       /\ messages[Len(messages)].isStreaming = TRUE
       /\ messages[Len(messages)].text = <<>>
       /\ messages[Len(messages)].sources = <<>>

C27_Witness ==
  /\ pc = "fetch"
  /\ Len(requests) = 2
  /\ ~requests[1].stream
  /\ messages[2].text = TokA \o TokB
  /\ ~IsStreaming(messages[2])
  /\ IsStreaming(messages[4])

\* C28: a step that leaves a streaming message streaming changes its text,
\* if at all, to a text that the text it had is a prefix of, and no step
\* changes the text of a user message.
C28_TextGrowsByAppend ==
  [][ \A i \in 1..Len(messages) :
        /\ (IsStreaming(messages[i]) /\ IsStreaming(messages'[i])) =>
             StartsWith(messages'[i].text, messages[i].text)
        /\ messages[i].sender = "user" =>
             messages'[i].text = messages[i].text ]_vars

\* the number of messages that are streaming
OpenCount(msgs) ==
  Cardinality({ i \in 1..Len(msgs) : IsStreaming(msgs[i]) })

\* this step begins a bot message: a message that is streaming is appended
BeginBotMessage ==
  /\ Len(messages') > Len(messages)
  /\ IsStreaming(messages'[Len(messages')])

\* C29: as long as a bot message is begun only when no message is streaming,
\* at most one message is streaming after every step: a step from a state
\* with at most one streaming message that is no begin, or a begin with no
\* message streaming, ends in a state with at most one streaming message.
C29_OneOpenWhenBeginFollowsClose ==
  [][ ( /\ OpenCount(messages) <= 1
        /\ BeginBotMessage => OpenCount(messages) = 0 ) =>
        OpenCount(messages') <= 1 ]_vars

C29_Witness ==
  /\ pc = "fetch"
  /\ Len(requests) = 2
  /\ requests[1].stream
  /\ Len(messages) = 4
  /\ IsClosed(messages[2])
  /\ messages[2].text = TokA
  /\ messages[2].id = messages[4].id
  /\ IsStreaming(messages[4])

\* lines without its lines that do not begin with 'data: '
DataLines(lines) == SelectSeq(lines, LAMBDA l : StartsWith(l, DataPrefix))

\* this step reads a chunk that lies within one line of the body, a line that
\* has its newline and does not begin with 'data: '
OtherLineRead ==
  /\ ChunkRead
  /\ \A j \in (pos + 1)..(pos' - 1) : wire[j] # NL
  /\ \E j \in pos'..Len(wire) : wire[j] = NL
  /\ ~StartsWith(SliceFrom(wire, LineStart(pos) - 1), DataPrefix)

\* C30: a line that does not begin with 'data: ' produces no event and no
\* change of the ledger and leaves the dispatch of the lines around it as it
\* is: reading a chunk dispatches the events, and changes the ledger,
\* exactly as reading the chunk without those lines does, and reading a
\* chunk that is part of such a line of the body dispatches no event and
\* leaves the ledger as it is.
C30_OtherLinesDiscarded ==
  [][ /\ ChunkRead =>
           LET lines == SplitLines(SubSeq(wire, pos + 1, pos'))
               evs == DispatchLines(DataLines(lines))
               st == ApplyEvents([messages |-> messages,
                                  streamedText |-> streamedText],
                                 botMessageId, evs)
           IN  /\ dispatched' = dispatched \o evs
               /\ messages' = st.messages
      /\ OtherLineRead =>
           (dispatched' = dispatched /\ messages' = messages) ]_vars

\* C31: the ledger is append-only: no step makes it shorter, and no step
\* changes the place, the id or the sender of a message that is in it.
C31_AppendOnly ==
  [][ /\ Len(messages') >= Len(messages)
      /\ \A i \in 1..Len(messages) :
           /\ messages'[i].id = messages[i].id
           /\ messages'[i].sender = messages[i].sender ]_vars

C31_Witness ==
  /\ pc = "idle"
  /\ Len(messages) = 4
  /\ Len(requests) = 2
  /\ requests[1].stream
  /\ ~requests[2].stream
  /\ messages[2].text = ErrorText
  /\ messages[4].text = GenericErrorText
  /\ messages[1].sender = "user"
  /\ messages[3].sender = "user"

\* C32: request k, when it is streamed, has its user message at place 2k - 1
\* and its bot message at place 2k of the ledger from the moment the request
\* is issued, the bot message is the one handleStreamingResponse created and
\* never carries the generic failure text, and the ledger never holds more
\* than two messages for each request issued.
C32_StreamedSubmitAppendsTwo ==
  /\ Len(messages) <= 2 * Len(requests)
  /\ \A k \in 1..Len(requests) :
       requests[k].stream =>
         /\ Len(messages) >= 2 * k
         /\ messages[2 * k - 1].sender = "user"
         /\ messages[2 * k - 1].text = requests[k].query
         /\ messages[2 * k].sender = "bot"
         /\ "isStreaming" \in DOMAIN messages[2 * k]
         /\ messages[2 * k].text # GenericErrorText
  /\ (pc = "idle" /\ requests # <<>> /\ requests[Len(requests)].stream) =>
       Len(messages) = 2 * Len(requests)

C32_Witness ==
  /\ pc = "idle"
  /\ ~isLoading
  /\ Len(requests) = 2
  /\ requests[1].stream
  /\ requests[2].stream
  /\ Len(messages) = 4
  /\ messages[2].text = TokA
  /\ IsClosed(messages[2])
  /\ messages[4].text = ErrorText
  /\ IsClosed(messages[4])
  /\ messages[2].id # messages[4].id

\* an error or a done event has been dispatched for the request in flight
TerminalSeen ==
  \E k \in 1..Len(dispatched) : dispatched[k].type \in {"error", "done"}

\* C33: while the streamed request is at fetch or at reader.read() the busy
\* flag is true, and the only steps that clear it are those in which the
\* transport ends or fails; a step that dispatches a done or an error event
\* leaves the flag true and the request in flight; and a call of
\* handleSubmit made after such an event, while the transport is still
\* open, appends no message and issues no request.
C33_BusyUntilTransportEnds ==
  /\ []( pc \in {"fetch", "read"} => isLoading )
  /\ [][ (pc \in {"fetch", "read"} /\ ~isLoading') =>
           (ReadDone \/ StreamFailed) ]_vars
  /\ [][ TerminalDispatched => (isLoading' /\ pc' = "read") ]_vars
  /\ [][ (SubmitCalled /\ pc = "read" /\ TerminalSeen) =>
           UNCHANGED << messages, isLoading, requests, pc, dispatched >> ]_vars

C33_Witness ==
  /\ submitted = << "q" >>
  /\ pc = "read"
  /\ isLoading
  /\ dispatched = << [type |-> "token", content |-> TokA], [type |-> "done"] >>
  /\ IsClosed(messages[Len(messages)])
  /\ Len(requests) = 1
  /\ Len(messages) = 2

\* s can be had from t by leaving out elements of t
RECURSIVE IsSubsequence(_, _)
IsSubsequence(s, t) ==
  IF s = <<>> THEN TRUE
  ELSE IF t = <<>> THEN FALSE
  ELSE IF Head(s) = Head(t) THEN IsSubsequence(Tail(s), Tail(t))
  ELSE IsSubsequence(s, Tail(t))

\* C34: however a valid stream is cut into chunks, the events dispatched so
\* far are, in their order, events of the stream read as one chunk with
\* others possibly left out: none is dispatched twice, out of order, or made
\* from a part of a frame.
C34_DispatchedIsSubsequence ==
  (pc = "read" /\ ValidStream(wire)) =>
    IsSubsequence(dispatched, DecodeChunk(wire))

C34_Witness ==
  /\ pc = "read"
  /\ wire = TokenFrame(TokA) \o TokenFrame(TokB) \o DoneFrame
  /\ pos = Len(wire)
  /\ dispatched = << [type |-> "token", content |-> TokA], [type |-> "done"] >>
  /\ IsClosed(messages[Len(messages)])
  /\ messages[Len(messages)].text = TokA

\* C35: a call of handleSubmit that is accepted issues one request, for the
\* text submitted and of the kind the mode selects; a call that is rejected
\* issues none; and no other step issues a request, so that a request that
\* failed is not sent again.
C35_OneRequestPerSubmit ==
  [][ IF SubmitCalled /\ Trim(submitted') # <<>> /\ ~isLoading
      THEN requests' = Append(requests,
             [query |-> submitted', max_sources |-> MaxSources,
              stream |-> useStreaming])
      ELSE requests' = requests ]_vars

C35_Witness ==
  /\ pc = "send"
  /\ isLoading
  /\ Len(requests) = 2
  /\ ~requests[1].stream
  /\ ~requests[2].stream
  /\ Len(messages) = 3
  /\ messages[2].text = GenericErrorText
  /\ messages[3].sender = "user"

\* an error event has been dispatched for the request in flight
ErrorSeen == \E k \in 1..Len(dispatched) : dispatched[k].type = "error"

\* C36: when the busy flag is cleared at the end of a streamed request for
\* which an error event was dispatched, the bot message of the request is
\* closed and its text is the fixed failure text, whatever was dispatched
\* after the error event.
C36_ErrorTextSurvives ==
  [][ ( /\ pc = "read"
        /\ ErrorSeen
        /\ isLoading
        /\ ~isLoading' ) =>
        /\ IsClosed(messages'[Len(messages)])
        /\ messages'[Len(messages)].text = ErrorText ]_vars

====
